---- MODULE Spec2Model ----
(***************************************************************************)
(* The trigger / acquisition handshake of examples/ssb-live-reconstruction *)
(* (uellue/ptychography): the owner thread runs the "run" cell (setup      *)
(* scope on the Merlin control channel, ctx.run_udf, teardown await), the  *)
(* acquisition runner calls trigger(), and trigger() offloads do_scan to   *)
(* the process-wide ThreadPoolExecutor(1).                                 *)
(***************************************************************************)
EXTENDS Naturals, Sequences, FiniteSets

\* ---------------------------------------------------------------- bounds
\* how often the run cell is executed in one process
MaxSessions == 2
\* how often trigger() is called during one run_udf
MaxTriggers == 2
\* frames the acquisition loop consumes in one run_udf
MaxFrames == 2

\* pool = concurrent.futures.ThreadPoolExecutor(1)
TwoWorkers == 1 + 1
PoolWorkers == 1

VARIABLES
    session,         \* number of executions of the run cell so far
    pc,              \* position of the owner thread
    ownerExc,        \* exception propagating in the owner thread
    openConns,       \* open connection handles to the control endpoint
    futs,            \* the futures returned by pool.submit, in submission order
    queue,           \* work queue of the pool (ids into futs)
    fut,             \* local variable fut of trigger()
    trigger_result,  \* acquisition_state.trigger_result (0 is None)
    triggers,        \* trigger() calls completed in this run_udf
    frames,          \* frames consumed in this run_udf
    frameLog,        \* what the frames of this run_udf saw of its trigger actions
    retrieved,       \* outcome of .result() in this teardown
    reported,        \* futures whose outcome reached the owner through .result()
    printed          \* whether this execution of the run cell printed "Finished."

vars == <<session, pc, ownerExc, openConns, futs, queue, fut, trigger_result,
          triggers, frames, frameLog, retrieved, reported, printed>>

ownerVars == <<session, pc, ownerExc, fut, trigger_result, triggers, frames,
               frameLog, retrieved, reported, printed>>

\* ------------------------------------------------------- futures and pool
Finished(t) == futs[t].st \in {"done", "raised"}
Executing == {t \in 1..Len(futs) : futs[t].st \in {"running", "in_scope", "exiting"}}
Outstanding == {t \in 1..Len(futs) : ~Finished(t)}
OfSession == {t \in 1..Len(futs) : futs[t].sess = session}

\* ControlChannel: open establishes a connection handle, close releases it
Connect == openConns' = openConns + 1
Close == openConns' = openConns - 1

\* pool.submit(do_scan): a new pending future at the tail of the work queue
Submit ==
    /\ futs' = Append(futs, [st |-> "queued", sess |-> session])
    /\ queue' = Append(queue, Len(futs) + 1)
    /\ fut' = Len(futs) + 1

\* set_trigger_result(result): self.trigger_result = result
set_trigger_result(result) == trigger_result' = result

Init ==
    /\ session = 0
    /\ pc = "idle"
    /\ ownerExc = "none"
    /\ openConns = 0
    /\ futs = << >>
    /\ queue = << >>
    /\ fut = 0
    /\ trigger_result = 0
    /\ triggers = 0
    /\ frames = 0
    /\ frameLog = {}
    /\ retrieved = "no"
    /\ reported = {}
    /\ printed = FALSE

\* ------------------------------------------------------------ the run cell
SetupPcs == {"merlin_setup", "set_nav", "arm", "exit_setup"}
OwnerInScope == pc \in SetupPcs

\* the cell is executed (again): c = MerlinControl(...); print("Connecting ...")
RunCell ==
    /\ pc \in {"idle", "ended"}
    /\ session < MaxSessions
    /\ session' = session + 1
    /\ pc' = "connect"
    /\ ownerExc' = "none"
    /\ triggers' = 0
    /\ frames' = 0
    /\ frameLog' = {}
    /\ retrieved' = "no"
    /\ printed' = FALSE
    /\ UNCHANGED <<openConns, futs, queue, fut, trigger_result, reported>>

\* with c: __enter__ connects, or raises ConnectionError and the cell ends
SetupEnter ==
    /\ pc = "connect"
    /\ \/ /\ Connect
          /\ pc' = "merlin_setup"
          /\ UNCHANGED ownerExc
       \/ /\ pc' = "ended"
          /\ ownerExc' = "ConnectionError"
          /\ UNCHANGED openConns
    /\ UNCHANGED <<session, futs, queue, fut, trigger_result, triggers, frames,
                   frameLog, retrieved, reported, printed>>

\* merlin_setup(c); microscope_setup()
merlin_setup ==
    /\ pc = "merlin_setup"
    /\ pc' = "set_nav"
    /\ UNCHANGED <<session, ownerExc, openConns, futs, queue, fut, trigger_result,
                   triggers, frames, frameLog, retrieved, reported, printed>>

\* set_nav(c, aq)
set_nav ==
    /\ pc = "set_nav"
    /\ pc' = "arm"
    /\ UNCHANGED <<session, ownerExc, openConns, futs, queue, fut, trigger_result,
                   triggers, frames, frameLog, retrieved, reported, printed>>

\* arm(c): c.cmd('STARTACQUISITION')
arm ==
    /\ pc = "arm"
    /\ pc' = "exit_setup"
    /\ UNCHANGED <<session, ownerExc, openConns, futs, queue, fut, trigger_result,
                   triggers, frames, frameLog, retrieved, reported, printed>>

\* a set/cmd raises inside the scope and __exit__ forgets to close
SetupRaiseLeak ==
    /\ pc \in {"merlin_setup", "set_nav", "arm"}
    /\ pc' = "ended"
    /\ ownerExc' = "ProtocolError"
    /\ UNCHANGED <<session, openConns, futs, queue, fut, trigger_result, triggers,
                   frames, frameLog, retrieved, reported, printed>>

\* a set/cmd raises inside the scope: __exit__ closes, the exception ends the cell
SetupRaise ==
    /\ pc \in {"merlin_setup", "set_nav", "arm"}
    /\ Close
    /\ pc' = "ended"
    /\ ownerExc' = "ProtocolError"
    /\ UNCHANGED <<session, futs, queue, fut, trigger_result, triggers, frames,
                   frameLog, retrieved, reported, printed>>

\* the with block ends normally: __exit__ closes, the cell goes on to try:
SetupExit ==
    /\ pc = "exit_setup"
    /\ Close
    /\ pc' = "run"
    /\ UNCHANGED <<session, ownerExc, futs, queue, fut, trigger_result, triggers,
                   frames, frameLog, retrieved, reported, printed>>

\* ------------------------------------------------ trigger(aq), lines 211-238
TriggerPcs == {"trigger", "trigger_submit", "trigger_store"}

\* print("Triggering!"); time.sleep(1); height, width = aq.shape.nav
trigger_prepare ==
    /\ pc = "trigger"
    /\ pc' = "trigger_submit"
    /\ UNCHANGED <<session, ownerExc, openConns, futs, queue, fut, trigger_result,
                   triggers, frames, frameLog, retrieved, reported, printed>>

\* do_scan() called on the caller's thread instead of being submitted
trigger_submit_inline ==
    /\ pc = "trigger_submit"
    /\ fut' = Len(futs) + 1
    /\ \/ /\ futs' = Append(futs, [st |-> "done", sess |-> session])
          /\ pc' = "trigger_store"
          /\ UNCHANGED ownerExc
       \/ /\ futs' = Append(futs, [st |-> "raised", sess |-> session])
          /\ pc' = "teardown"
          /\ ownerExc' = "background"
    /\ UNCHANGED <<session, openConns, queue, trigger_result, triggers, frames,
                   frameLog, retrieved, reported, printed>>

\* trigger() that never submits do_scan
trigger_submit_skip ==
    /\ pc = "trigger_submit"
    /\ pc' = "trigger_store"
    /\ UNCHANGED <<session, ownerExc, openConns, futs, queue, fut, trigger_result,
                   triggers, frames, frameLog, retrieved, reported, printed>>

\* fut = pool.submit(do_scan)
trigger_submit ==
    /\ pc = "trigger_submit"
    /\ Submit
    /\ pc' = "trigger_store"
    /\ UNCHANGED <<session, ownerExc, openConns, trigger_result, triggers, frames,
                   frameLog, retrieved, reported, printed>>

\* trigger() that waits for the future before it returns
trigger_store_blocking ==
    /\ pc = "trigger_store"
    /\ Finished(fut)
    /\ set_trigger_result(fut)
    /\ triggers' = triggers + 1
    /\ pc' = "run"
    /\ UNCHANGED <<session, ownerExc, openConns, futs, queue, fut, frames,
                   frameLog, retrieved, reported, printed>>

\* acquisition_state.set_trigger_result(fut); trigger() returns to the runner
trigger_store ==
    /\ pc = "trigger_store"
    /\ set_trigger_result(fut)
    /\ triggers' = triggers + 1
    /\ pc' = "run"
    /\ UNCHANGED <<session, ownerExc, openConns, futs, queue, fut, frames,
                   frameLog, retrieved, reported, printed>>

trigger == trigger_prepare \/ trigger_submit \/ trigger_store

\* ------------------------------- ctx.run_udf(...): the acquisition runner
\* the runner calls trigger(aq); the source does not guard against a second call
run_udf_trigger ==
    /\ pc = "run"
    /\ triggers < MaxTriggers
    /\ pc' = "trigger"
    /\ UNCHANGED <<session, ownerExc, openConns, futs, queue, fut, trigger_result,
                   triggers, frames, frameLog, retrieved, reported, printed>>

\* the acquisition loop consumes one frame; it starts after trigger() was called
run_udf_frame ==
    /\ pc = "run"
    /\ triggers >= 1
    /\ frames < MaxFrames
    /\ frames' = frames + 1
    /\ frameLog' = frameLog \cup
           {IF \E t \in OfSession : ~Finished(t) THEN "pending" ELSE "completed"}
    /\ UNCHANGED <<session, pc, ownerExc, openConns, futs, queue, fut,
                   trigger_result, triggers, retrieved, reported, printed>>

\* run_udf returns: all frames received
run_udf_return ==
    /\ pc = "run"
    /\ triggers >= 1
    /\ frames >= 1
    /\ pc' = "teardown"
    /\ UNCHANGED <<session, ownerExc, openConns, futs, queue, fut, trigger_result,
                   triggers, frames, frameLog, retrieved, reported, printed>>

\* run_udf raises (before trigger() was called, or at any later point of the loop)
run_udf_raise ==
    /\ pc = "run"
    /\ ownerExc' = "loop"
    /\ pc' = "teardown"
    /\ UNCHANGED <<session, openConns, futs, queue, fut, trigger_result, triggers,
                   frames, frameLog, retrieved, reported, printed>>

\* ---------------------------------------- finally: of the run cell, 546-553
\* teardown that never looks at the stored handle
teardown_check_skip ==
    /\ pc = "teardown"
    /\ pc' = "finish"
    /\ UNCHANGED <<session, ownerExc, openConns, futs, queue, fut, trigger_result,
                   triggers, frames, frameLog, retrieved, reported, printed>>

\* if acquisition_state.trigger_result is not None: print("Waiting ...")
teardown_check ==
    /\ pc = "teardown"
    /\ pc' = IF trigger_result # 0 THEN "await" ELSE "finish"
    /\ UNCHANGED <<session, ownerExc, openConns, futs, queue, fut, trigger_result,
                   triggers, frames, frameLog, retrieved, reported, printed>>

\* teardown that prints the stored handle without calling .result() on it
teardown_nowait ==
    /\ pc = "await"
    /\ retrieved' = "ok"
    /\ pc' = "finish"
    /\ UNCHANGED <<session, ownerExc, openConns, futs, queue, fut, trigger_result,
                   triggers, frames, frameLog, reported, printed>>

\* print(f"result = {acquisition_state.trigger_result.result()}"): blocks until the
\* future is finished, then returns its result or re-raises its exception
teardown_await ==
    /\ pc = "await"
    /\ Finished(trigger_result)
    /\ reported' = reported \cup {trigger_result}
    /\ \/ /\ futs[trigger_result].st = "done"
          /\ retrieved' = "ok"
          /\ pc' = "finish"
          /\ UNCHANGED ownerExc
       \/ /\ futs[trigger_result].st = "raised"
          /\ retrieved' = "exc"
          /\ ownerExc' = "background"
          /\ pc' = "ended"
    /\ UNCHANGED <<session, openConns, futs, queue, fut, trigger_result, triggers,
                   frames, frameLog, printed>>

\* the finally blocks end: a pending run_udf exception propagates, otherwise
\* print("Finished.")
finish ==
    /\ pc = "finish"
    /\ pc' = "ended"
    /\ printed' = (ownerExc = "none")
    /\ UNCHANGED <<session, ownerExc, openConns, futs, queue, fut, trigger_result,
                   triggers, frames, frameLog, retrieved, reported>>

\* --------------------------------- the pool's worker thread running do_scan
SetFut(t, s) == futs' = [futs EXCEPT ![t].st = s]

\* a free worker takes the head of the work queue: print("do_scan()")
WorkerStart ==
    /\ queue # << >>
    /\ Cardinality(Executing) < PoolWorkers
    /\ SetFut(Head(queue), "running")
    /\ queue' = Tail(queue)
    /\ UNCHANGED <<openConns, ownerVars>>

\* with c: __enter__ connects, or raises and the future captures the exception
do_scan_enter ==
    \E t \in Executing :
        /\ futs[t].st = "running"
        /\ \/ /\ Connect
              /\ SetFut(t, "in_scope")
           \/ /\ SetFut(t, "raised")
              /\ UNCHANGED openConns
        /\ UNCHANGED <<queue, ownerVars>>

\* c.cmd('SOFTTRIGGER') returns (it may have blocked for the whole scan)
do_scan_cmd ==
    \E t \in Executing :
        /\ futs[t].st = "in_scope"
        /\ SetFut(t, "exiting")
        /\ UNCHANGED <<openConns, queue, ownerVars>>

\* c.cmd raises: __exit__ closes, the future captures the exception
do_scan_raise ==
    \E t \in Executing :
        /\ futs[t].st = "in_scope"
        /\ Close
        /\ SetFut(t, "raised")
        /\ UNCHANGED <<queue, ownerVars>>

\* the with block ends: __exit__ closes, do_scan returns None
do_scan_exit ==
    \E t \in Executing :
        /\ futs[t].st = "exiting"
        /\ Close
        /\ SetFut(t, "done")
        /\ UNCHANGED <<queue, ownerVars>>

do_scan == do_scan_enter \/ do_scan_cmd \/ do_scan_raise \/ do_scan_exit

Next ==
    \/ RunCell \/ SetupEnter \/ merlin_setup \/ set_nav \/ arm \/ SetupRaise
    \/ SetupExit
    \/ run_udf_trigger \/ trigger \/ run_udf_frame \/ run_udf_return
    \/ run_udf_raise
    \/ teardown_check \/ teardown_await \/ finish
    \/ WorkerStart \/ do_scan

Spec == Init /\ [][Next]_vars

\* ------------------------------------------------------------------ claims
InScope == {t \in 1..Len(futs) : futs[t].st \in {"in_scope", "exiting"}}

\* C1: trigger() never waits for the background action: in every position inside
\* trigger() its next step can be taken whatever the state of the futures, and
\* once it has returned the stored handle is the future it has just submitted.
C1_TriggerNeverWaits ==
    /\ pc \in TriggerPcs => ENABLED trigger
    /\ (pc = "run" /\ triggers >= 1) =>
           (trigger_result = Len(futs) /\ trigger_result \in OfSession)

\* trigger() has returned and a frame was consumed while do_scan is still queued
C1_Witness ==
    /\ pc = "run"
    /\ frames >= 1
    /\ trigger_result # 0
    /\ futs[trigger_result].st = "queued"

\* C2: the exception of a background action reaches the owner only through
\* .result() at teardown: it propagates in the owner only after the await, and
\* never while the owner is inside trigger() or the acquisition loop.
C2_ExceptionOnlyAtAwait ==
    /\ ownerExc = "background" => (pc = "ended" /\ retrieved = "exc")
    /\ pc \in TriggerPcs \cup {"run"} => ownerExc = "none"

\* the only action of the session raised, a frame was consumed after that, and
\* the exception surfaced at the teardown await
C2_Witness ==
    /\ pc = "ended"
    /\ ownerExc = "background"
    /\ triggers = 1
    /\ "completed" \in frameLog

\* C3: when a session has ended, every background action of it that raised has
\* had its exception reported to the owner.
C3_NoFailureLost ==
    pc = "ended" => \A t \in OfSession : futs[t].st = "raised" => t \in reported

\* C4: at most one background action executes at any time, and an action has
\* left the queue only if every action submitted before it has finished.
C4_OneAtATime ==
    /\ Cardinality(Executing) <= 1
    /\ \A i, j \in 1..Len(futs) :
           (i < j /\ futs[j].st # "queued") => Finished(i)

\* a second action waits in the queue while the first is inside its scope
C4_Witness ==
    \E i, j \in 1..Len(futs) :
        i < j /\ futs[i].st = "in_scope" /\ futs[j].st = "queued"

\* C5: the open connection handles are exactly those of the scopes that are
\* currently entered: none survives a scope, however the scope was left.
C5_ChannelClosed ==
    openConns = (IF OwnerInScope THEN 1 ELSE 0) + Cardinality(InScope)

\* a command raised inside the setup scope, after an earlier do_scan raised too,
\* and no handle is open
C5_Witness ==
    /\ pc = "ended"
    /\ ownerExc = "ProtocolError"
    /\ \E t \in 1..Len(futs) : futs[t].st = "raised"
    /\ openConns = 0

\* C6: at most one trigger action is outstanding, and result() is only called
\* on a stored handle.
C6_OneOutstanding ==
    /\ Cardinality(Outstanding) <= 1
    /\ pc = "await" => trigger_result # 0

\* C7: a frame is consumed only after trigger() has submitted a background
\* action in this session.
C7_SubmittedBeforeFrames ==
    frames >= 1 => (triggers >= 1 /\ OfSession # {})

\* frames were consumed both while the action was pending and after it completed
C7_Witness == frameLog = {"pending", "completed"}

\* the per-session state of section 4.3, read off the program's state
SessionState ==
    IF retrieved = "ok" THEN "COMPLETE"
    ELSE IF retrieved = "exc" THEN "FAILED"
    ELSE IF \/ pc \in {"idle", "connect"} \cup SetupPcs
            \/ ownerExc \in {"ConnectionError", "ProtocolError"} THEN "IDLE"
    ELSE IF triggers = 0 /\ pc # "trigger_store" THEN "PREPARED"
    ELSE IF frames = 0 /\ pc \in TriggerPcs \cup {"run"} THEN "TRIGGER_SUBMITTED"
    ELSE "AWAITING_RESULT"

StateOrder ==
    {<<"IDLE", "PREPARED">>, <<"PREPARED", "TRIGGER_SUBMITTED">>,
     <<"TRIGGER_SUBMITTED", "AWAITING_RESULT">>,
     <<"AWAITING_RESULT", "COMPLETE">>, <<"AWAITING_RESULT", "FAILED">>}

\* C8: a session starts IDLE and its state only advances along IDLE, PREPARED,
\* TRIGGER_SUBMITTED, AWAITING_RESULT, then COMPLETE or FAILED.
C8_StateOrder ==
    /\ SessionState = "IDLE"
    /\ [][IF session' # session
          THEN SessionState' = "IDLE"
          ELSE \/ SessionState' = SessionState
               \/ <<SessionState, SessionState'>> \in StateOrder]_vars

\* C9: a session has finished (the finally blocks are left) only when every
\* trigger action it submitted has completed or raised.
C9_NoFinishWhileRunning ==
    pc \in {"finish", "ended"} => \A t \in OfSession : Finished(t)

\* a session with two trigger() calls printed "Finished."
C9_Witness ==
    /\ pc = "ended"
    /\ printed
    /\ triggers >= 2

\* C10: the handle awaited at teardown was stored by trigger() in this session.
C10_AwaitsOwnHandle ==
    pc = "await" => (triggers >= 1 /\ trigger_result \in OfSession)

\* C11: the owner and the pool's worker never use the control channel c at the
\* same time: no do_scan is inside its channel scope while the owner connects or
\* is inside the setup scope, and the owner rebinds c and enters the setup scope
\* only when every background action submitted so far has finished.
C11_ChannelNotShared ==
    /\ InScope # {} => ~(pc = "connect" \/ OwnerInScope)
    /\ (pc = "connect" \/ OwnerInScope) => Outstanding = {}

\* the owner is inside the setup scope of a second session after the first
\* session ran two background actions
C11_Witness ==
    /\ session >= 2
    /\ pc = "arm"
    /\ Len(futs) >= 2
====
